---- MODULE Spec2Model ----
(***************************************************************************)
(* Signaling relay (server/index.ts, kept in src/unnamed/part_000) and the *)
(* participant-side mesh controller (client/src/hooks/useWebSocket.ts) of  *)
(* 12Caster.                                                               *)
(*                                                                         *)
(* The relay ("Hub"): one action per inbound event of the WebSocket server. *)
(* Every handler runs to completion (Node's single-threaded event loop, no *)
(* await inside a handler): an action is the whole handler, ev and out     *)
(* record the event and what the handler sent, and Return is the handler   *)
(* giving the loop back.                                                   *)
(*   Spec       connections, joins, chat, malformed input, disconnects     *)
(*   SpecMedia  connections, joins, media-state messages, disconnects      *)
(*   SpecRelay  connections, joins, signaling messages, disconnects        *)
(*                                                                         *)
(* The participant: every callback of the hook is a step; an async         *)
(* function is cut where it awaits.  Local media capture is not started in *)
(* these specifications.                                                   *)
(*   SpecLink   one participant, the relay as its environment              *)
(*   SpecMesh   participants joined through the relay                      *)
(***************************************************************************)
EXTENDS Integers, Sequences, FiniteSets, TLC

(***************************************************************************)
(* Bounds of the model.                                                    *)
(***************************************************************************)
\* channels (WebSocket connections) that ever connect to the relay
NumChan == 3
\* distinct values generateUserId can return
NumIds == 2
\* channels that connect in SpecMedia
NumMediaChan == 2
\* channels that connect in SpecChat
NumChatChan == 2

\* server/index.ts: const MAX_CLIENTS = 200.  The comparison of the
\* connection handler is kept; the ceiling is scaled down so that a model of
\* NumChan channels reaches it.
MAX_CLIENTS == 2

\* participants of SpecMesh
NumPart == 2
\* RTCPeerConnection objects a participant holds unclosed at a time
MaxConn == 3
\* pending setTimeout callbacks of a participant
MaxTimers == 3
\* initiateCall runs of a participant suspended at an await
MaxCalls == 2
\* frames queued between a participant and the relay, per direction
MaxBox == 3
\* the retry ceiling the reconnection property speaks of
MaxRetries == 2

\* useWebSocket.ts: the delays of its four setTimeout calls, in milliseconds
LIST_DELAY == 100
CALL_DELAY == 100
RETRY_DELAY == 1000
CONNECTION_TIMEOUT == 10000

Chan == 1..NumChan
UserIds == 1..NumIds
\* "no channel" (the exceptWs argument left out) and "no id" (a field the
\* client did not send / undefined)
NoCh == 0
NoId == 0

(***************************************************************************)
(* Strings are sequences of characters, so that trim() is computed.        *)
(***************************************************************************)
\* a value of data.username that is not a string (missing, number, ...)
NotAString == <<"#">>
\* a field of type string the client did not send
NoName == <<>>
\* what a client may send as data.username: two names (one of them padded), a
\* blank string, and a value that is no string
UsernameInputs == {<<"a">>, <<" ", "b">>, <<" ">>, NotAString}
\* the same with one name
OneNameInputs == {<<" ", "a">>, <<" ">>, NotAString}
\* a name, and the name the chat branch gives a channel without an identity
ChatNameInputs == {<<"a">>, <<"Anonymous">>}

RECURSIVE TrimLeft(_)
TrimLeft(s) == IF s # <<>> /\ Head(s) = " " THEN TrimLeft(Tail(s)) ELSE s

RECURSIVE TrimRight(_)
TrimRight(s) ==
  IF s # <<>> /\ s[Len(s)] = " " THEN TrimRight(SubSeq(s, 1, Len(s) - 1)) ELSE s

\* String.prototype.trim
Trim(s) == TrimRight(TrimLeft(s))

\* typeof data.username === 'string' && data.username.trim().length > 0
ValidUsername(u) == u # NotAString /\ Len(Trim(u)) > 0

(***************************************************************************)
(* A JavaScript Map keyed by userId, as the sequence of its values in      *)
(* insertion order (every value carries its key in field userId).          *)
(***************************************************************************)
MapHas(m, k) == \E i \in 1..Len(m) : m[i].userId = k
MapGet(m, k) == m[CHOOSE i \in 1..Len(m) : m[i].userId = k]
\* Map.prototype.set: an existing key keeps its position
MapSet(m, k, v) ==
  IF MapHas(m, k)
  THEN [i \in 1..Len(m) |-> IF m[i].userId = k THEN v ELSE m[i]]
  ELSE Append(m, v)
MapDelete(m, k) == SelectSeq(m, LAMBDA r : r.userId # k)
MapKeys(m) == {m[i].userId : i \in 1..Len(m)}

SeqRange(s) == {s[i] : i \in 1..Len(s)}

(***************************************************************************)
(* State of the relay.                                                     *)
(***************************************************************************)
VARIABLES
  chanState,         \* readyState of each server-side WebSocket ("idle" before it connects)
  wssClients,        \* wss.clients, in insertion order
  accepted,          \* channels whose message/close handlers were registered
  clients,           \* Map<WebSocket, {username, userId}>
  connectedUsers,    \* Map<userId, ConnectedUser>  (the Registry)
  userAudioStates,   \* Map<userId, UserAudioState>
  userVideoStates,   \* Map<userId, UserVideoState>
  ev,                \* the inbound event handled last
  out,               \* what the handler of ev sent, in order: <<[to, msg], ...>>
  seen,              \* per channel: ids it received in a user_list before ev
  prev,              \* the media-state event handled just before, with what it sent
  cl                 \* per participant: the state of its useWebSocket hook

hubVars == <<chanState, wssClients, accepted, clients, connectedUsers,
             userAudioStates, userVideoStates, ev, out, seen, prev>>

vars == <<hubVars, cl>>

(***************************************************************************)
(* Inbound data (the parsed JSON of a text frame).                         *)
(***************************************************************************)
SignalTypes == {"webrtc_offer", "webrtc_answer", "webrtc_ice_candidate"}
MediaTypes == {"audio_enabled", "audio_disabled", "video_enabled", "video_disabled"}

Data(type, username, target, sender, senderName, text) ==
  [type |-> type, username |-> username, targetUserId |-> target,
   senderUserId |-> sender, senderUsername |-> senderName, text |-> text]

NoData == Data("none", NoName, NoId, NoId, NoName, "")

Event(kind, c, data) == [kind |-> kind, ch |-> c, data |-> data]

\* the event loop is idle: no handler is running
IdleEvent == Event("idle", NoCh, NoData)
Idle == ev = IdleEvent

(***************************************************************************)
(* Sending.                                                                *)
(***************************************************************************)
Emit(c, msg) == [to |-> c, msg |-> msg]

\* function sendToClient(ws, msg)
SendToClient(ws, msg) ==
  IF chanState[ws] = "open" THEN <<Emit(ws, msg)>> ELSE <<>>

\* function broadcast(msg, exceptWs?) over the clients cs
BroadcastOver(cs, msg, exceptWs) ==
  LET to == SelectSeq(cs, LAMBDA c : chanState[c] = "open" /\ c # exceptWs)
  IN [i \in 1..Len(to) |-> Emit(to[i], msg)]

UserListOf(users) ==
  [type |-> "user_list",
   users |-> [i \in 1..Len(users) |->
               [userId |-> users[i].userId, username |-> users[i].username]]]

\* function broadcastUserList()
BroadcastUserList(cs, users) == BroadcastOver(cs, UserListOf(users), NoCh)

\* function broadcastAudioStates()
BroadcastAudioStates(cs, states) ==
  BroadcastOver(cs, [type |-> "audio_states", states |-> states], NoCh)

\* function broadcastVideoStates()
BroadcastVideoStates(cs, states) ==
  BroadcastOver(cs, [type |-> "video_states", states |-> states], NoCh)

SystemMsg(username, what) == [type |-> "system", message |-> <<username, what>>]

(***************************************************************************)
(* Observation: the ids a channel has been told of in a user_list.         *)
(***************************************************************************)
ListedIds(msg) ==
  IF msg.type = "user_list" THEN MapKeys(msg.users) ELSE {}

\* seen, with the user_lists of the emissions o taken in
Absorb(s, o) ==
  [c \in Chan |-> s[c] \cup UNION {ListedIds(o[i].msg) : i \in {j \in 1..Len(o) : o[j].to = c}}]

\* a handler: the event it handles and what it sends
Observe(e, o) ==
  /\ ev' = e
  /\ out' = o
  /\ UNCHANGED <<seen, prev>>

NoPrev == [ev |-> IdleEvent, out |-> <<>>]

(***************************************************************************)
(* wss.on('connection', ...)                                               *)
(***************************************************************************)
Connection(c) ==
  /\ Idle
  /\ chanState[c] = "idle"
  /\ \A d \in Chan : d < c => chanState[d] # "idle"
  /\ wssClients' = Append(wssClients, c)
  /\ IF Len(wssClients') > MAX_CLIENTS
     THEN /\ chanState' = [chanState EXCEPT ![c] = "closing"]
          /\ accepted' = accepted
          /\ Observe(Event("connection", c, NoData),
                     <<Emit(c, [type |-> "error", message |-> "Server full"])>>)
     ELSE /\ chanState' = [chanState EXCEPT ![c] = "open"]
          /\ accepted' = accepted \cup {c}
          /\ Observe(Event("connection", c, NoData),
                     <<Emit(c, [type |-> "request_username"]),
                       Emit(c, UserListOf(connectedUsers))>>)
  /\ UNCHANGED <<clients, connectedUsers, userAudioStates, userVideoStates>>

(***************************************************************************)
(* ws.on('message', ...): one action per branch of the handler.  A message *)
(* arrives only on a channel that is OPEN and whose handlers were          *)
(* registered.                                                             *)
(***************************************************************************)
Receiving(c) == Idle /\ chanState[c] = "open" /\ c \in accepted

\* function generateUserId(): Math.random().toString(36).substr(2, 9); nothing
\* keeps it from returning a value it returned before
GenerateUserId == UserIds

\* JoinOut with the user list broadcast before the system notice
JoinOutListFirst(ws, username, userId, users) ==
  SendToClient(ws, [type |-> "username_accepted", username |-> username, userId |-> userId])
    \o BroadcastUserList(wssClients, users)
    \o BroadcastOver(wssClients, SystemMsg(username, "joined"), ws)
    \o BroadcastAudioStates(wssClients, userAudioStates)
    \o BroadcastVideoStates(wssClients, userVideoStates)

\* the sends of the accepted set_username branch (the Registry already updated)
JoinOut(ws, username, userId, users) ==
  SendToClient(ws, [type |-> "username_accepted", username |-> username, userId |-> userId])
    \o BroadcastOver(wssClients, SystemMsg(username, "joined"), ws)
    \o BroadcastUserList(wssClients, users)
    \o BroadcastAudioStates(wssClients, userAudioStates)
    \o BroadcastVideoStates(wssClients, userVideoStates)

\* data.type === 'set_username'
SetUsername(c, inputs) ==
  /\ Receiving(c)
  /\ \E u \in inputs :
       LET e == Event("message", c, Data("set_username", u, NoId, NoId, NoName, "")) IN
       IF ValidUsername(u)
       THEN \E userId \in GenerateUserId :
              LET username == Trim(u)
                  users == MapSet(connectedUsers, userId,
                                  [userId |-> userId, username |-> username, ws |-> c])
              IN /\ clients' = [d \in DOMAIN clients \cup {c} |->
                                  IF d = c THEN [username |-> username, userId |-> userId]
                                  ELSE clients[d]]
                 /\ connectedUsers' = users
                 /\ Observe(e, JoinOut(c, username, userId, users))
       ELSE /\ UNCHANGED <<clients, connectedUsers>>
            /\ Observe(e, SendToClient(c, [type |-> "error", message |-> "Invalid username"]))
  /\ UNCHANGED <<chanState, wssClients, accepted, userAudioStates, userVideoStates>>

\* try { data = JSON.parse(...) } catch { error 'Invalid JSON' }
InvalidJson(c) ==
  /\ Receiving(c)
  /\ Observe(Event("message", c, Data("#unparsable", NoName, NoId, NoId, NoName, "")),
             SendToClient(c, [type |-> "error", message |-> "Invalid JSON"]))
  /\ UNCHANGED <<chanState, wssClients, accepted, clients, connectedUsers,
                 userAudioStates, userVideoStates>>

\* a binary frame (isBinary), or a type no branch handles: nothing happens
Ignored(c) ==
  /\ Receiving(c)
  /\ \E e \in {Event("binary", c, NoData),
               Event("message", c, Data("unknown", NoName, NoId, NoId, NoName, ""))} :
       Observe(e, <<>>)
  /\ UNCHANGED <<chanState, wssClients, accepted, clients, connectedUsers,
                 userAudioStates, userVideoStates>>

\* data.type === 'chat'
ChatOut(ws, text) ==
  LET clientInfo == IF ws \in DOMAIN clients THEN clients[ws]
                    ELSE [username |-> <<"Anonymous">>, userId |-> NoId]
  IN BroadcastOver(wssClients,
                   [type |-> "chat", username |-> clientInfo.username, text |-> text],
                   NoCh)

Chat(c) ==
  /\ Receiving(c)
  /\ \E text \in {"hi", ""} :
       Observe(Event("message", c, Data("chat", NoName, NoId, NoId, NoName, text)),
               ChatOut(c, text))
  /\ UNCHANGED <<chanState, wssClients, accepted, clients, connectedUsers,
                 userAudioStates, userVideoStates>>

\* SetMediaState that replaces the table by the one entry
SetMediaStateAlone(states, userId, enabled) ==
  <<[userId |-> userId, enabled |-> enabled]>>

\* SetMediaState that flips the flag of an entry that already has the value
SetMediaStateToggle(states, userId, enabled) ==
  MapSet(states, userId,
         [userId |-> userId,
          enabled |-> IF MapHas(states, userId) /\ MapGet(states, userId).enabled = enabled
                      THEN ~enabled ELSE enabled])

\* userAudioStates.set(clientInfo.userId, {userId, isAudioEnabled})
\* (the same for video; the flag is field enabled)
SetMediaState(states, userId, enabled) ==
  MapSet(states, userId, [userId |-> userId, enabled |-> enabled])

\* data.type === 'audio_enabled' | 'audio_disabled' | 'video_enabled' | 'video_disabled'
MediaState(c, types) ==
  /\ Receiving(c)
  /\ \E type \in types :
       LET e == Event("message", c, Data(type, NoName, NoId, NoId, NoName, ""))
           enabled == type \in {"audio_enabled", "video_enabled"}
       IN IF c \in DOMAIN clients
          THEN IF type \in {"audio_enabled", "audio_disabled"}
               THEN LET states == SetMediaState(userAudioStates, clients[c].userId, enabled)
                    IN /\ userAudioStates' = states
                       /\ UNCHANGED userVideoStates
                       /\ Observe(e, BroadcastOver(wssClients,
                                      [type |-> "audio_states", states |-> states],
                                      NoCh))
               ELSE LET states == SetMediaState(userVideoStates, clients[c].userId, enabled)
                    IN /\ userVideoStates' = states
                       /\ UNCHANGED userAudioStates
                       /\ Observe(e, BroadcastOver(wssClients,
                                      [type |-> "video_states", states |-> states],
                                      NoCh))
          ELSE /\ UNCHANGED <<userAudioStates, userVideoStates>>
               /\ Observe(e, <<>>)
  /\ UNCHANGED <<chanState, wssClients, accepted, clients, connectedUsers>>

\* MessageWithSender with the spread last: { senderUserId, senderUsername, ...data }
MessageWithSenderFirst(data, senderInfo) ==
  IF data.senderUserId # NoId THEN data
  ELSE [data EXCEPT !.senderUserId = senderInfo.userId,
                    !.senderUsername = senderInfo.username]

\* { ...data, senderUserId: senderInfo.userId, senderUsername: senderInfo.username }
MessageWithSender(data, senderInfo) ==
  [data EXCEPT !.senderUserId = senderInfo.userId,
               !.senderUsername = senderInfo.username]

\* RelayOut that answers an absent target with an error to the sender
RelayOutErrorReply(ws, data) ==
  IF MapHas(connectedUsers, data.targetUserId)
  THEN LET targetUser == MapGet(connectedUsers, data.targetUserId) IN
       IF chanState[targetUser.ws] = "open" /\ ws \in DOMAIN clients
       THEN <<Emit(targetUser.ws,
                   [data EXCEPT !.senderUserId = clients[ws].userId,
                                !.senderUsername = clients[ws].username])>>
       ELSE <<>>
  ELSE SendToClient(ws, [type |-> "error", message |-> "Unknown target"])

\* RelayOut that forwards the message of a channel without a clients entry
RelayOutAnySender(ws, data) ==
  IF MapHas(connectedUsers, data.targetUserId)
  THEN LET targetUser == MapGet(connectedUsers, data.targetUserId) IN
       IF chanState[targetUser.ws] = "open"
       THEN <<Emit(targetUser.ws,
                   IF ws \in DOMAIN clients THEN MessageWithSender(data, clients[ws])
                   ELSE data)>>
       ELSE <<>>
  ELSE <<>>

\* the sends of the signaling branch
RelayOut(ws, data) ==
  IF MapHas(connectedUsers, data.targetUserId)
  THEN LET targetUser == MapGet(connectedUsers, data.targetUserId) IN
       IF chanState[targetUser.ws] = "open" /\ ws \in DOMAIN clients
       THEN <<Emit(targetUser.ws, MessageWithSender(data, clients[ws]))>>
       ELSE <<>>
  ELSE <<>>

\* sender fields a client may put into a signaling message itself
ClaimedSenders == {<<NoId, NoName>>} \cup {<<i, <<"z">>>> : i \in UserIds}

\* data.type === 'webrtc_offer' | 'webrtc_answer' | 'webrtc_ice_candidate'
RelayData(c, data) ==
  /\ Receiving(c)
  /\ Observe(Event("message", c, data), RelayOut(c, data))
  /\ UNCHANGED <<chanState, wssClients, accepted, clients, connectedUsers,
                 userAudioStates, userVideoStates>>

\* the signaling branch with any message a client can send
Relay(c) ==
  \E type \in SignalTypes, target \in UserIds \cup {NoId}, claimed \in ClaimedSenders :
    RelayData(c, Data(type, NoName, target, claimed[1], claimed[2], ""))

(***************************************************************************)
(* The end of a channel.  The peer's close frame (or the server's own      *)
(* ws.close()) makes readyState CLOSING; when the socket is gone the       *)
(* server removes the WebSocket from wss.clients, readyState is CLOSED and *)
(* 'close' is emitted.  An abrupt disconnect goes from OPEN to CLOSED.     *)
(***************************************************************************)
Closing(c) ==
  /\ Idle
  /\ chanState[c] = "open"
  /\ chanState' = [chanState EXCEPT ![c] = "closing"]
  /\ Observe(Event("closing", c, NoData), <<>>)
  /\ UNCHANGED <<wssClients, accepted, clients, connectedUsers,
                 userAudioStates, userVideoStates>>

\* LeaveOut with the user list broadcast taken before the record is deleted
LeaveOutStale(ws, cs, clientInfo, users, audio, video) ==
  BroadcastOver(cs, SystemMsg(clientInfo.username, "left"), ws)
    \o BroadcastUserList(cs, connectedUsers)
    \o BroadcastAudioStates(cs, audio)
    \o BroadcastVideoStates(cs, video)

\* the sends of ws.on('close') for a channel with a clients entry
LeaveOut(ws, cs, clientInfo, users, audio, video) ==
  BroadcastOver(cs, SystemMsg(clientInfo.username, "left"), ws)
    \o BroadcastUserList(cs, users)
    \o BroadcastAudioStates(cs, audio)
    \o BroadcastVideoStates(cs, video)

\* ws.on('close', ...)
Close(c) ==
  /\ Idle
  /\ chanState[c] \in {"open", "closing"}
  /\ chanState' = [chanState EXCEPT ![c] = "closed"]
  /\ wssClients' = SelectSeq(wssClients, LAMBDA d : d # c)
  /\ UNCHANGED accepted
  /\ IF c \in accepted /\ c \in DOMAIN clients
     THEN LET clientInfo == clients[c]
              users == MapDelete(connectedUsers, clientInfo.userId)
              audio == MapDelete(userAudioStates, clientInfo.userId)
              video == MapDelete(userVideoStates, clientInfo.userId)
          IN /\ connectedUsers' = users
             /\ userAudioStates' = audio
             /\ userVideoStates' = video
             /\ clients' = [d \in DOMAIN clients \ {c} |-> clients[d]]
             /\ Observe(Event("close", c, NoData),
                        LeaveOut(c, wssClients', clientInfo, users, audio, video))
     ELSE /\ UNCHANGED <<clients, connectedUsers, userAudioStates, userVideoStates>>
          /\ Observe(Event("close", c, NoData), <<>>)

(***************************************************************************)
(* The participant: client/src/hooks/useWebSocket.ts (with the join button *)
(* of client/src/App.tsx).  cl[p] is the state of participant p's hook:    *)
(* its refs, its RTCPeerConnection objects, its pending timers and its     *)
(* suspended async functions.  Every callback of the hook is a function    *)
(* from the state before to the state after; a callback that awaits is cut *)
(* at the await.                                                           *)
(***************************************************************************)
Part == 1..NumPart
Handles == 1..MaxConn
\* the key `undefined` of peersRef (handleConnectionFailure called with the
\* userId of an object that has none)
Undef == 0 - 1
Keys == UserIds \cup {Undef}
\* a reference to an RTCPeerConnection that was closed
Dead == 0

Min(a, b) == IF a < b THEN a ELSE b
RemoveAt(s, i) == SubSeq(s, 1, i - 1) \o SubSeq(s, i + 1, Len(s))

\* the kinds of media track: getAudioTracks(), getVideoTracks()
Kinds == {"audio", "video"}

\* a slot of the model without an RTCPeerConnection
FreeConn ==
  [state |-> "free", sig |-> "stable", localSet |-> FALSE, remoteSet |-> FALSE,
   gathered |-> FALSE, remote |-> NoId, senders |-> {}]
\* new RTCPeerConnection(rtcConfig), created for the remote id `key`
NewConn(key) ==
  [state |-> "new", sig |-> "stable", localSet |-> FALSE, remoteSet |-> FALSE,
   gathered |-> FALSE, remote |-> key, senders |-> {}]

InitPart ==
  [ws |-> "connecting",               \* wsRef.current.readyState
   userIdRef |-> NoId,                \* userIdRef.current ('' before the join)
   stream |-> FALSE,                  \* localStreamRef.current is not null
   tracks |-> [k \in Kinds |-> "none"],      \* the track of each kind in it
   enabled |-> {},                    \* isAudioEnabled, isVideoEnabled
   capturing |-> {},                  \* getUserMedia calls that have not settled
   peers |-> <<>>,                    \* peersRef.current: Map<userId, WebRTCPeer>
   conns |-> [h \in Handles |-> FreeConn],   \* the unclosed RTCPeerConnections
   timers |-> <<>>,                   \* pending setTimeout callbacks, oldest first
   calls |-> <<>>,                    \* initiateCall runs suspended at createOffer
   inbox |-> <<>>,                    \* frames the relay sent, not yet handled
   outbox |-> <<>>,                   \* frames sent to the relay, not yet handled
   connectedUsers |-> {},             \* the ids of the state connectedUsers
   asked |-> FALSE,                   \* App: isUsernameSet
   offered |-> {},                    \* remote ids an offer was sent to
   recreated |-> [k \in UserIds |-> 0],      \* Links recreated by the retry timer
   late |-> {},                       \* remote ids whose oldest unanswered offer
                                      \* went out on a Link that was closed since
   ok |-> TRUE]                       \* FALSE: the step left the bounds of the model

Timer(kind, key, conn, users) ==
  [kind |-> kind, key |-> key, conn |-> conn, users |-> users]

\* the delay of each setTimeout of the hook, in milliseconds
Delay(kind) ==
  CASE kind = "lists" -> LIST_DELAY
    [] kind = "call" -> CALL_DELAY
    [] kind = "retry" -> RETRY_DELAY
    [] kind = "timeout" -> CONNECTION_TIMEOUT

\* setTimeout(callback, delay)
SetTimer(s, t) ==
  IF Len(s.timers) >= MaxTimers THEN [s EXCEPT !.ok = FALSE]
  ELSE [s EXCEPT !.timers = Append(@, t)]

\* references to the connection h held by timers and suspended calls
Kill(refs, h) ==
  [i \in DOMAIN refs |-> IF refs[i].conn = h THEN [refs[i] EXCEPT !.conn = Dead]
                         ELSE refs[i]]

\* connection.close(): the slot is free again, what still refers to the
\* connection refers to a closed one
CloseConn(s, h) ==
  [s EXCEPT !.conns[h] = FreeConn,
            !.calls = Kill(@, h),
            !.timers = Kill(@, h),
            !.late = IF s.ws = "open" /\ s.conns[h].sig = "have-local-offer"
                     THEN @ \cup {s.conns[h].remote} ELSE @]

HasFree(s) == \E h \in Handles : s.conns[h].state = "free"
Alloc(s) ==
  CHOOSE h \in Handles :
    /\ s.conns[h].state = "free"
    /\ \A g \in Handles : g < h => s.conns[g].state # "free"

\* JSON.stringify drops a field whose value is undefined
Target(key) == IF key = Undef THEN NoId ELSE key

\* wsRef.current.send(...) guarded by readyState === WebSocket.OPEN
Send(s, msg) ==
  IF s.ws = "open" THEN [s EXCEPT !.outbox = Append(@, msg)] ELSE s

\* handleConnectionFailure(userId, username)
HandleConnectionFailure(s, key) ==
  LET s1 == IF MapHas(s.peers, key)
            THEN [CloseConn(s, MapGet(s.peers, key).conn)
                    EXCEPT !.peers = MapDelete(@, key)]
            ELSE s
  IN SetTimer(s1, Timer("retry", key, Dead, <<>>))

\* initiateCall(peer) up to its first await: connectionTimeout is set and
\* createOffer is called
InitiateCall(s, key, h) ==
  LET s1 == SetTimer(s, Timer("timeout", key, h, <<>>))
  IN IF Len(s1.calls) >= MaxCalls THEN [s1 EXCEPT !.ok = FALSE]
     ELSE [s1 EXCEPT !.calls = Append(@, [key |-> key, conn |-> h])]

\* clearTimeout(connectionTimeout) of the call on (key, h)
ClearTimeout(s, key, h) ==
  LET I == {i \in 1..Len(s.timers) :
              /\ s.timers[i].kind = "timeout"
              /\ s.timers[i].key = key
              /\ s.timers[i].conn = h}
  IN IF I = {} THEN s
     ELSE [s EXCEPT !.timers = RemoveAt(@, CHOOSE i \in I : \A j \in I : i <= j)]

\* initiateCall(peer) after createOffer: setLocalDescription(offer), the offer
\* is sent, the timeout cleared; an exception goes to handleConnectionFailure.
\* On a closed connection createOffer either rejects or never settles.
OfferCreated(s, i, rejects) ==
  LET a == s.calls[i]
      s0 == [s EXCEPT !.calls = RemoveAt(@, i)]
  IN IF a.conn = Dead
     THEN IF rejects THEN HandleConnectionFailure(s0, a.key) ELSE s0
     ELSE IF s0.conns[a.conn].sig = "have-remote-offer"
     THEN HandleConnectionFailure(s0, a.key)
     ELSE LET s1 == [s0 EXCEPT !.conns[a.conn].sig = "have-local-offer",
                               !.conns[a.conn].localSet = TRUE]
              s2 == IF s1.ws = "open"
                    THEN [Send(s1, Data("webrtc_offer", NoName, Target(a.key),
                                        NoId, NoName, ""))
                            EXCEPT !.offered = @ \cup {a.key}]
                    ELSE s1
          IN ClearTimeout(s2, a.key, a.conn)

\* localStreamRef.current.getTracks(), by kind: a stopped track stays in the
\* stream
StreamKinds(s) == {k \in Kinds : s.tracks[k] # "none"}

\* createPeerConnection(userId, username); it returns the RTCPeerConnection,
\* not the WebRTCPeer it stored
CreatePeerConnection(s, key) ==
  IF ~HasFree(s) THEN [s EXCEPT !.ok = FALSE]
  ELSE LET h == Alloc(s)
           s1 == [s EXCEPT !.conns[h] = [NewConn(key) EXCEPT !.senders = StreamKinds(s)],
                           !.peers = MapSet(@, key, [userId |-> key, conn |-> h])]
       IN IF s1.stream /\ s1.userIdRef # NoId THEN InitiateCall(s1, key, h) ELSE s1

\* initiateCall(x) for an x that is an RTCPeerConnection: x.connection is
\* undefined, the TypeError is caught and handleConnectionFailure is called
\* with x.userId and x.username, both undefined.  (The timeout it set before
\* throws the same TypeError when it fires and changes nothing.)
InitiateCallOnConnection(s) == HandleConnectionFailure(s, Undef)

\* createPeerConnections(users), from users[i] on
RECURSIVE CreatePeerConnectionsFrom(_, _, _)
CreatePeerConnectionsFrom(s, users, i) ==
  IF i > Len(users) THEN s
  ELSE LET u == users[i]
           s1 == IF u # s.userIdRef /\ ~MapHas(s.peers, u)
                 THEN LET s2 == CreatePeerConnection(s, u)
                      IN IF s2.userIdRef # NoId
                         THEN SetTimer(s2, Timer("call", u, Dead, <<>>))
                         ELSE s2
                 ELSE s
       IN CreatePeerConnectionsFrom(s1, users, i + 1)

CreatePeerConnections(s, users) == CreatePeerConnectionsFrom(s, users, 1)

\* the callback of handleConnectionFailure's setTimeout
Retry(s, key) ==
  LET s1 == CreatePeerConnection(s, key)
      s2 == IF key \in UserIds
            THEN [s1 EXCEPT !.recreated[key] = Min(@ + 1, MaxRetries + 1)]
            ELSE s1
  IN InitiateCallOnConnection(s2)

\* a timer may fire when no older pending timer has a delay that is not
\* longer; the 10 s timeout of a call does not fire while the createOffer of
\* the call has not settled
TimerDue(s, i) ==
  /\ \A j \in 1..(i - 1) : Delay(s.timers[j].kind) > Delay(s.timers[i].kind)
  /\ s.timers[i].kind = "timeout" =>
       \A j \in 1..Len(s.calls) :
         ~(s.calls[j].key = s.timers[i].key /\ s.calls[j].conn = s.timers[i].conn)

\* the callback of the i-th pending timer
FireTimer(s, i) ==
  LET t == s.timers[i]
      s0 == [s EXCEPT !.timers = RemoveAt(@, i)]
  IN CASE t.kind = "lists" -> CreatePeerConnections(s0, t.users)
       [] t.kind = "call" ->
            IF MapHas(s0.peers, t.key)
            THEN InitiateCall(s0, t.key, MapGet(s0.peers, t.key).conn)
            ELSE s0
       [] t.kind = "retry" -> Retry(s0, t.key)
       [] t.kind = "timeout" ->
            IF t.conn # Dead /\ s0.conns[t.conn].state = "connected" THEN s0
            ELSE HandleConnectionFailure(s0, t.key)

\* handleWebRTCOffer(data).  Without a Link for the sender the value of
\* createPeerConnection is used as a WebRTCPeer: peer.connection is undefined
\* and the TypeError is caught.  With a Link in have-local-offer the browser
\* either rolls the local offer back (rollback) or rejects the remote one.
HandleWebRTCOffer(s, sender, rollback) ==
  IF ~MapHas(s.peers, sender) THEN CreatePeerConnection(s, sender)
  ELSE LET h == MapGet(s.peers, sender).conn IN
       IF s.conns[h].sig = "have-local-offer" /\ ~rollback THEN s
       ELSE Send([s EXCEPT !.conns[h].sig = "stable",
                           !.conns[h].localSet = TRUE,
                           !.conns[h].remoteSet = TRUE],
                 Data("webrtc_answer", NoName, Target(sender), NoId, NoName, ""))

\* handleWebRTCAnswer(data)
HandleWebRTCAnswer(s, sender) ==
  LET s0 == [s EXCEPT !.late = @ \ {sender}] IN
  IF ~MapHas(s0.peers, sender) THEN s0
  ELSE LET h == MapGet(s0.peers, sender).conn IN
       IF s0.conns[h].sig = "have-local-offer"
       THEN [s0 EXCEPT !.conns[h].sig = "stable", !.conns[h].remoteSet = TRUE]
       ELSE s0

\* handleWebRTCICECandidate(data): addIceCandidate rejects with
\* InvalidStateError while the connection has no remote description
HandleWebRTCICECandidate(s, sender) ==
  IF ~MapHas(s.peers, sender) THEN s
  ELSE LET h == MapGet(s.peers, sender).conn IN
       IF s.conns[h].remoteSet THEN s ELSE HandleConnectionFailure(s, sender)

\* handleMessage(data)
HandleMessage(s, msg, rollback) ==
  CASE msg.type = "user_list" ->
         SetTimer([s EXCEPT !.connectedUsers = MapKeys(msg.users)],
                  Timer("lists", NoId, Dead,
                        [i \in 1..Len(msg.users) |-> msg.users[i].userId]))
    [] msg.type = "username_accepted" -> [s EXCEPT !.userIdRef = msg.userId]
    [] msg.type = "webrtc_offer" -> HandleWebRTCOffer(s, msg.senderUserId, rollback)
    [] msg.type = "webrtc_answer" -> HandleWebRTCAnswer(s, msg.senderUserId)
    [] msg.type = "webrtc_ice_candidate" -> HandleWebRTCICECandidate(s, msg.senderUserId)
    [] OTHER -> s

\* stopAllStreams()
RECURSIVE ClosePeersFrom(_, _, _)
ClosePeersFrom(s, ps, i) ==
  IF i > Len(ps) THEN s ELSE ClosePeersFrom(CloseConn(s, ps[i].conn), ps, i + 1)

StopAllStreams(s) ==
  [ClosePeersFrom(s, s.peers, 1) EXCEPT !.stream = FALSE,
                                        !.tracks = [k \in Kinds |-> "none"],
                                        !.enabled = {},
                                        !.peers = <<>>]

\* the connections of peersRef
PeerConns(s) == {s.peers[i].conn : i \in 1..Len(s.peers)}

\* addTracksToPeers(): every sender with a track is removed and every track
\* of the local stream is added, on every connection of peersRef
AddTracksToPeers(s) ==
  IF ~s.stream THEN s
  ELSE [s EXCEPT !.conns = [h \in Handles |->
                              IF h \in PeerConns(s)
                              THEN [s.conns[h] EXCEPT !.senders = StreamKinds(s)]
                              ELSE s.conns[h]]]

\* startAudioStreaming() / startVideoStreaming() up to the await: the tracks
\* of the kind are stopped and getUserMedia is called
StartStreaming(s, kind) ==
  [s EXCEPT !.tracks[kind] = IF @ = "none" THEN "none" ELSE "ended",
            !.capturing = @ \cup {kind}]

\* startAudioStreaming() / startVideoStreaming() after getUserMedia: the
\* track of the kind is replaced in the local stream (or the new stream
\* becomes the local stream), addTracksToPeers(), the flag is set and the
\* state message sent; a rejection is logged
CaptureSettled(s, kind, rejects) ==
  LET s0 == [s EXCEPT !.capturing = @ \ {kind}]
  IN IF rejects THEN s0
     ELSE LET s1 == IF s0.stream THEN [s0 EXCEPT !.tracks[kind] = "live"]
                    ELSE [s0 EXCEPT !.stream = TRUE,
                                    !.tracks = [k \in Kinds |->
                                                  IF k = kind THEN "live" ELSE "none"]]
              s2 == [AddTracksToPeers(s1) EXCEPT !.enabled = @ \cup {kind}]
          IN Send(s2, Data(kind \o "_enabled", NoName, NoId, NoId, NoName, ""))

\* stopAudioStreaming() / stopVideoStreaming(): the tracks of the kind are
\* stopped and their senders removed from every connection of peersRef; the
\* tracks stay in the local stream
StopStreaming(s, kind) ==
  LET s1 == IF s.stream /\ s.tracks[kind] # "none"
            THEN [s EXCEPT !.tracks[kind] = "ended",
                           !.conns = [h \in Handles |->
                                        IF h \in PeerConns(s)
                                        THEN [s.conns[h] EXCEPT !.senders = @ \ {kind}]
                                        ELSE s.conns[h]]]
            ELSE s
  IN Send([s1 EXCEPT !.enabled = @ \ {kind}],
          Data(kind \o "_disabled", NoName, NoId, NoId, NoName, ""))

(***************************************************************************)
(* The relay.                                                              *)
(***************************************************************************)
Init ==
  /\ chanState = [c \in Chan |-> "idle"]
  /\ wssClients = <<>>
  /\ accepted = {}
  /\ clients = <<>>
  /\ connectedUsers = <<>>
  /\ userAudioStates = <<>>
  /\ userVideoStates = <<>>
  /\ ev = IdleEvent
  /\ out = <<>>
  /\ seen = [c \in Chan |-> {}]
  /\ prev = NoPrev
  /\ cl = [p \in Part |-> InitPart]

\* the handler returns to the event loop; what it sent has been received
Return ==
  /\ ~Idle
  /\ ev' = IdleEvent
  /\ out' = <<>>
  /\ seen' = Absorb(seen, out)
  /\ prev' = IF ev.data.type \in MediaTypes THEN [ev |-> ev, out |-> out] ELSE NoPrev
  /\ UNCHANGED <<chanState, wssClients, accepted, clients, connectedUsers,
                 userAudioStates, userVideoStates>>

Next ==
  \/ Return /\ UNCHANGED cl
  \/ \E c \in Chan :
       \/ Connection(c) /\ UNCHANGED cl
       \/ SetUsername(c, UsernameInputs) /\ UNCHANGED cl
       \/ InvalidJson(c) /\ UNCHANGED cl
       \/ Ignored(c) /\ UNCHANGED cl
       \/ Chat(c) /\ UNCHANGED cl
       \/ Closing(c) /\ UNCHANGED cl
       \/ Close(c) /\ UNCHANGED cl

Spec == Init /\ [][Next]_vars

\* the relay with media-state messages, one display name
NextMedia ==
  \/ Return /\ UNCHANGED cl
  \/ \E c \in 1..NumMediaChan :
       \/ Connection(c) /\ UNCHANGED cl
       \/ SetUsername(c, OneNameInputs) /\ UNCHANGED cl
       \/ MediaState(c, MediaTypes) /\ UNCHANGED cl
       \/ Closing(c) /\ UNCHANGED cl
       \/ Close(c) /\ UNCHANGED cl

SpecMedia == Init /\ [][NextMedia]_vars

\* the relay with signaling messages, one display name
NextRelay ==
  \/ Return /\ UNCHANGED cl
  \/ \E c \in Chan :
       \/ Connection(c) /\ UNCHANGED cl
       \/ SetUsername(c, OneNameInputs) /\ UNCHANGED cl
       \/ Relay(c) /\ UNCHANGED cl
       \/ Closing(c) /\ UNCHANGED cl
       \/ Close(c) /\ UNCHANGED cl

SpecRelay == Init /\ [][NextRelay]_vars

\* the relay with chat messages, the display name 'Anonymous' among the names
NextChat ==
  \/ Return /\ UNCHANGED cl
  \/ \E c \in 1..NumChatChan :
       \/ Connection(c) /\ UNCHANGED cl
       \/ SetUsername(c, ChatNameInputs) /\ UNCHANGED cl
       \/ Chat(c) /\ UNCHANGED cl
       \/ Closing(c) /\ UNCHANGED cl
       \/ Close(c) /\ UNCHANGED cl

SpecChat == Init /\ [][NextChat]_vars

\* the signaling branch with the messages the hook sends: a target and no
\* sender fields
RelayPlain(c) ==
  \E type \in SignalTypes, target \in UserIds :
    RelayData(c, Data(type, NoName, target, NoId, NoName, ""))

\* the relay with signaling and media-state messages, from channels that
\* joined and from channels that did not
NextGuest ==
  \/ Return /\ UNCHANGED cl
  \/ \E c \in 1..NumMediaChan :
       \/ Connection(c) /\ UNCHANGED cl
       \/ SetUsername(c, OneNameInputs) /\ UNCHANGED cl
       \/ MediaState(c, MediaTypes) /\ UNCHANGED cl
       \/ RelayPlain(c) /\ UNCHANGED cl
       \/ Closing(c) /\ UNCHANGED cl
       \/ Close(c) /\ UNCHANGED cl

SpecGuest == Init /\ [][NextGuest]_vars

(***************************************************************************)
(* The participant's steps.  wire says whether what the participant sends  *)
(* is kept for the relay (SpecMesh) or leaves the model (SpecLink).        *)
(***************************************************************************)
Step(p, new, wire) ==
  /\ new.ok
  /\ Len(new.outbox) <= MaxBox
  /\ cl' = [cl EXCEPT ![p] = IF wire THEN new ELSE [new EXCEPT !.outbox = <<>>]]
  /\ UNCHANGED hubVars

\* ws.onopen
WsOpen(p, wire) ==
  /\ cl[p].ws = "connecting"
  /\ Step(p, [cl[p] EXCEPT !.ws = "open"], wire)

\* ws.onclose: stopAllStreams()
WsClose(p, wire) ==
  /\ cl[p].ws \in {"connecting", "open"}
  /\ Step(p, StopAllStreams([cl[p] EXCEPT !.ws = "closed"]), wire)

\* App.handleSetUsername: the join button, pressed once
SetUsernameClicked(p, wire) ==
  /\ ~cl[p].asked
  /\ Step(p, Send([cl[p] EXCEPT !.asked = TRUE],
                  Data("set_username", <<"a">>, NoId, NoId, NoName, "")), wire)

\* a callback of setTimeout runs
TimerFires(p, wire) ==
  \E i \in 1..Len(cl[p].timers) :
    /\ TimerDue(cl[p], i)
    /\ Step(p, FireTimer(cl[p], i), wire)

\* the createOffer of a suspended initiateCall settles
CreateOfferSettles(p, wire) ==
  \E i \in 1..Len(cl[p].calls), rejects \in BOOLEAN :
    Step(p, OfferCreated(cl[p], i, rejects), wire)

\* the negotiated transport of a connection can come up or fail
Negotiated(c) ==
  c.state \in {"new", "connected"} /\ c.remoteSet /\ c.localSet /\ c.sig = "stable"

\* onconnectionstatechange, state 'connected'
TransportConnected(p, wire) ==
  \E h \in Handles :
    /\ Negotiated(cl[p].conns[h])
    /\ cl[p].conns[h].state = "new"
    /\ Step(p, [cl[p] EXCEPT !.conns[h].state = "connected"], wire)

\* onconnectionstatechange, state 'failed'
TransportFailed(p, wire) ==
  \E h \in Handles :
    /\ Negotiated(cl[p].conns[h])
    /\ Step(p, HandleConnectionFailure([cl[p] EXCEPT !.conns[h].state = "failed"],
                                       cl[p].conns[h].remote), wire)

\* onicecandidate (one candidate per connection)
IceCandidate(p, wire) ==
  \E h \in Handles :
    /\ cl[p].conns[h].state # "free"
    /\ cl[p].conns[h].localSet
    /\ ~cl[p].conns[h].gathered
    /\ Step(p, Send([cl[p] EXCEPT !.conns[h].gathered = TRUE],
                    Data("webrtc_ice_candidate", NoName,
                         Target(cl[p].conns[h].remote), NoId, NoName, "")), wire)

\* App.toggleAudio / App.toggleVideo while the kind is off (one getUserMedia
\* of a kind at a time); the buttons are rendered once isUsernameSet
ToggleOn(p, wire) ==
  \E kind \in Kinds :
    /\ cl[p].asked
    /\ kind \notin cl[p].enabled
    /\ kind \notin cl[p].capturing
    /\ Step(p, StartStreaming(cl[p], kind), wire)

\* getUserMedia settles
GetUserMediaSettles(p, wire) ==
  \E kind \in cl[p].capturing, rejects \in BOOLEAN :
    Step(p, CaptureSettled(cl[p], kind, rejects), wire)

\* App.toggleAudio / App.toggleVideo while the kind is on
ToggleOff(p, wire) ==
  \E kind \in cl[p].enabled :
    Step(p, StopStreaming(cl[p], kind), wire)

(***************************************************************************)
(* SpecLink: one participant; the relay is its environment and delivers    *)
(* any frame the relay can send to it.                                     *)
(***************************************************************************)
UserLists ==
  {<<>>} \cup {<<[userId |-> i, username |-> <<"a">>]>> : i \in UserIds}
         \cup {<<[userId |-> ij[1], username |-> <<"a">>],
                 [userId |-> ij[2], username |-> <<"a">>]>> :
               ij \in {ij \in UserIds \X UserIds : ij[1] # ij[2]}}

\* frames the relay can send to a participant in state s: any user list
\* (with the participant's own record once it joined), the acceptance of its
\* join, and signaling from the other ids once it is registered
LinkMessages(s) ==
  {UserListOf(l) : l \in {l \in UserLists :
      s.userIdRef # NoId => \E i \in 1..Len(l) : l[i].userId = s.userIdRef}}
  \cup (IF s.asked /\ s.userIdRef = NoId
        THEN {[type |-> "username_accepted", username |-> <<"a">>, userId |-> i] :
                i \in UserIds}
        ELSE {})
  \cup (IF s.userIdRef # NoId
        THEN {Data(t, NoName, s.userIdRef, i, <<"a">>, "") :
                t \in SignalTypes, i \in UserIds \ {s.userIdRef}}
        ELSE {})

\* ws.onmessage with a frame of the environment
LinkReceive(p) ==
  /\ cl[p].ws = "open"
  /\ \E msg \in LinkMessages(cl[p]), rollback \in BOOLEAN :
       Step(p, HandleMessage(cl[p], msg, rollback), FALSE)

NextLink ==
  \E p \in {1} :
    \/ WsOpen(p, FALSE)
    \/ SetUsernameClicked(p, FALSE)
    \/ LinkReceive(p)
    \/ TimerFires(p, FALSE)
    \/ CreateOfferSettles(p, FALSE)
    \/ TransportConnected(p, FALSE)
    \/ TransportFailed(p, FALSE)
    \/ IceCandidate(p, FALSE)
    \/ WsClose(p, FALSE)

SpecLink == Init /\ [][NextLink]_vars

(***************************************************************************)
(* SpecStream: one participant that switches its microphone and camera on  *)
(* and off; the relay delivers user lists, the acceptance of the join and  *)
(* the answers of the other peers.                                         *)
(***************************************************************************)
StreamMessages(s) ==
  {msg \in LinkMessages(s) : msg.type \in {"user_list", "username_accepted", "webrtc_answer"}}

\* ws.onmessage with a frame of the environment
StreamReceive(p) ==
  /\ cl[p].ws = "open"
  /\ \E msg \in StreamMessages(cl[p]) :
       Step(p, HandleMessage(cl[p], msg, FALSE), FALSE)

NextStream ==
  \E p \in {1} :
    \/ WsOpen(p, FALSE)
    \/ SetUsernameClicked(p, FALSE)
    \/ StreamReceive(p)
    \/ TimerFires(p, FALSE)
    \/ CreateOfferSettles(p, FALSE)
    \/ TransportConnected(p, FALSE)
    \/ ToggleOn(p, FALSE)
    \/ GetUserMediaSettles(p, FALSE)
    \/ ToggleOff(p, FALSE)

SpecStream == Init /\ [][NextStream]_vars

(***************************************************************************)
(* SpecMesh: NumPart participants and the relay between them; participant  *)
(* p is the relay's channel p.                                             *)
(***************************************************************************)
\* frames whose handling touches more than what the page displays
Relevant(msg) == msg.type \in {"user_list", "username_accepted"} \cup SignalTypes

Delivered(p) ==
  LET sent == SelectSeq(out, LAMBDA o : o.to = p /\ Relevant(o.msg))
  IN [i \in 1..Len(sent) |-> sent[i].msg]

\* the relay accepts the participant's WebSocket; ws.onopen
MeshConnection(p) ==
  /\ Connection(p)
  /\ cl' = [cl EXCEPT ![p].ws = "open"]

\* the relay handles the oldest frame the participant sent
MeshHub(p) ==
  /\ cl[p].outbox # <<>>
  /\ LET m == Head(cl[p].outbox) IN
       \/ m.type = "set_username" /\ SetUsername(p, {m.username})
       \/ m.type \in SignalTypes /\ RelayData(p, m)
  /\ cl' = [cl EXCEPT ![p].outbox = Tail(@)]

\* the relay's handler returns; what it sent arrives
MeshReturn ==
  /\ Return
  /\ \A p \in Part : Len(cl[p].inbox) + Len(Delivered(p)) <= MaxBox
  /\ cl' = [p \in Part |-> [cl[p] EXCEPT !.inbox = @ \o Delivered(p)]]

\* ws.onmessage with the oldest frame that arrived
MeshReceive(p) ==
  /\ cl[p].ws = "open"
  /\ cl[p].inbox # <<>>
  /\ \E rollback \in BOOLEAN :
       Step(p, HandleMessage([cl[p] EXCEPT !.inbox = Tail(@)],
                             Head(cl[p].inbox), rollback), TRUE)

NextMesh ==
  \/ MeshReturn
  \/ \E p \in Part :
       \/ MeshConnection(p)
       \/ MeshHub(p)
       \/ SetUsernameClicked(p, TRUE)
       \/ MeshReceive(p)
       \/ TimerFires(p, TRUE)
       \/ CreateOfferSettles(p, TRUE)
       \/ TransportConnected(p, TRUE)
       \/ IceCandidate(p, TRUE)

SpecMesh == Init /\ [][NextMesh]_vars

(***************************************************************************)
(* SpecSync: one participant that switches its microphone and camera on    *)
(* and off, the relay that keeps the media states, and a second channel of *)
(* the relay that joins once, sends media states and leaves.  No Link      *)
(* exists yet: the only frames the participant sends are its join and its  *)
(* media states.                                                           *)
(***************************************************************************)
\* the relay handles the oldest frame the participant sent, the media-state
\* frames included
SyncHub(p) ==
  /\ cl[p].outbox # <<>>
  /\ LET m == Head(cl[p].outbox) IN
       \/ m.type = "set_username" /\ SetUsername(p, {m.username})
       \/ m.type \in MediaTypes /\ MediaState(p, {m.type})
  /\ cl' = [cl EXCEPT ![p].outbox = Tail(@)]

\* the frames sent to p whose handling touches the join: user lists only
\* set timers, and the other frames only change what the page displays
Accepted(p) ==
  LET sent == SelectSeq(out, LAMBDA o : o.to = p /\ o.msg.type = "username_accepted")
  IN [i \in 1..Len(sent) |-> sent[i].msg]

\* the relay's handler returns; what it sent to the participant arrives
SyncReturn(p) ==
  /\ Return
  /\ Len(cl[p].inbox) + Len(Accepted(p)) <= MaxBox
  /\ cl' = [cl EXCEPT ![p].inbox = @ \o Accepted(p)]

\* frames of the participant the relay has not handled yet
MaxSyncBox == 2

NextSync ==
  \/ \E p \in {1} :
       \/ SyncReturn(p)
       \/ MeshConnection(p)
       \/ SyncHub(p)
       \/ SetUsernameClicked(p, TRUE)
       \/ MeshReceive(p)
       \/ ToggleOn(p, TRUE)
       \/ GetUserMediaSettles(p, TRUE) /\ Len(cl'[p].outbox) <= MaxSyncBox
       \/ ToggleOff(p, TRUE) /\ Len(cl'[p].outbox) <= MaxSyncBox
  \/ \E c \in 2..NumMediaChan :
       \/ Connection(c) /\ UNCHANGED cl
       \/ SetUsername(c, OneNameInputs) /\ c \notin DOMAIN clients /\ UNCHANGED cl
       \/ MediaState(c, MediaTypes) /\ UNCHANGED cl
       \/ Closing(c) /\ UNCHANGED cl
       \/ Close(c) /\ UNCHANGED cl

SpecSync == Init /\ [][NextSync]_vars

(***************************************************************************)
(* Properties of the relay.                                                *)
(***************************************************************************)
OpenChannels == {c \in Chan : chanState[c] = "open"}
Indices(type) == {i \in 1..Len(out) : out[i].msg.type = type}
Recipients(I) == {out[i].to : i \in I}

\* channels that completed the join handshake and have not disconnected
JoinedChannels == {c \in Chan : c \in DOMAIN clients /\ chanState[c] # "closed"}
RecordsOf(c) == {i \in 1..Len(connectedUsers) : connectedUsers[i].ws = c}

\* C1: at every observation point the Registry holds exactly one Peer record
\* for every channel that completed the join handshake and has not since
\* disconnected, and no Peer record for anything else.
C1_RegistryIsJoinedChannels ==
  /\ \A c \in JoinedChannels : Cardinality(RecordsOf(c)) = 1
  /\ \A i \in 1..Len(connectedUsers) : connectedUsers[i].ws \in JoinedChannels

JoinEvent ==
  /\ ev.kind = "message"
  /\ ev.data.type = "set_username"
  /\ ValidUsername(ev.data.username)

\* C2: a successful join sends, in this order, username_accepted to the joiner
\* only, then a system (joined) notice to every other open channel and not to
\* the joiner, then a user_list containing the joiner to every open channel
\* including the joiner; the three groups are contiguous and are all that the
\* handler emits of these types.
C2_JoinOrder ==
  JoinEvent =>
    LET acc == Indices("username_accepted")
        sys == Indices("system")
        lst == Indices("user_list")
    IN /\ acc = {1}
       /\ out[1].to = ev.ch
       /\ out[1].msg.username = Trim(ev.data.username)
       /\ Recipients(sys) = OpenChannels \ {ev.ch}
       /\ Cardinality(sys) = Cardinality(OpenChannels \ {ev.ch})
       /\ \A i \in sys : out[i].msg.message = <<out[1].msg.username, "joined">>
       /\ Recipients(lst) = OpenChannels
       /\ ev.ch \in OpenChannels
       /\ Cardinality(lst) = Cardinality(OpenChannels)
       /\ \A i \in lst :
            \E k \in 1..Len(out[i].msg.users) :
              out[i].msg.users[k] =
                [userId |-> out[1].msg.userId, username |-> out[1].msg.username]
       /\ \A i \in sys : \A j \in lst : 1 < i /\ i < j
       /\ acc \cup sys \cup lst = 1..(1 + Cardinality(sys) + Cardinality(lst))

\* a join with another channel open: notices and lists were sent
C2_Witness ==
  /\ JoinEvent
  /\ Indices("system") # {}
  /\ Cardinality(Indices("user_list")) >= 2

\* ids a message refers to
Refs(msg) ==
  IF msg.type \in SignalTypes THEN {msg.senderUserId}
  ELSE IF msg.type \in {"audio_states", "video_states"} THEN MapKeys(msg.states)
  ELSE {}
OwnIds(c) == IF c \in DOMAIN clients THEN {clients[c].userId} ELSE {}
\* ids channel c was told of in a user_list before the i-th send of ev
ListedBefore(c, i) ==
  seen[c] \cup UNION {ListedIds(out[j].msg) : j \in {k \in 1..(i - 1) : out[k].to = c}}

\* C3: no channel C receives a message referring to another peer's id X (a
\* relayed offer/answer/candidate with senderUserId X, or a media-state entry
\* for X) before C has received a user_list containing X.
C3_NoReferenceBeforeUserList ==
  \A i \in 1..Len(out) :
    \A x \in Refs(out[i].msg) \ OwnIds(out[i].to) :
      x \in ListedBefore(out[i].to, i)

RelayEvent == ev.kind = "message" /\ ev.data.type \in SignalTypes

\* C4: every offer/answer/candidate envelope the Hub forwards carries the
\* senderUserId and senderUsername registered for the originating channel,
\* whatever sender fields the client put into the message.
C4_SenderIsAuthoritative ==
  \A i \in 1..Len(out) :
    out[i].msg.type \in SignalTypes =>
      /\ RelayEvent
      /\ ev.ch \in DOMAIN clients
      /\ out[i].msg.senderUserId = clients[ev.ch].userId
      /\ out[i].msg.senderUsername = clients[ev.ch].username

\* an envelope was forwarded whose sender fields the client had set to
\* another identity
C4_Witness ==
  /\ RelayEvent
  /\ out # <<>>
  /\ ev.data.senderUserId # NoId
  /\ ev.data.senderUserId # clients[ev.ch].userId
  /\ ev.data.senderUsername # clients[ev.ch].username

\* C5: relaying an offer, answer or candidate whose target id is not in the
\* Registry sends nothing to any channel, leaves the Registry (and every other
\* table) unchanged and leaves the sender's channel open.
C5_AbsentTargetDropped ==
  [][(/\ ev'.kind = "message"
      /\ ev'.data.type \in SignalTypes
      /\ ~MapHas(connectedUsers, ev'.data.targetUserId))
     => /\ out' = <<>>
        /\ connectedUsers' = connectedUsers
        /\ clients' = clients
        /\ userAudioStates' = userAudioStates
        /\ userVideoStates' = userVideoStates
        /\ wssClients' = wssClients
        /\ chanState' = chanState
        /\ chanState'[ev'.ch] = "open"]_vars

\* a registered peer relayed to an id that is in no Registry record
C5_Witness ==
  /\ RelayEvent
  /\ ev.ch \in DOMAIN clients
  /\ ev.data.targetUserId \in UserIds
  /\ ~MapHas(connectedUsers, ev.data.targetUserId)
  /\ connectedUsers # <<>>
  /\ out = <<>>

IsAudio(type) == type \in {"audio_enabled", "audio_disabled"}
IsEnable(type) == type \in {"audio_enabled", "video_enabled"}

\* C9: when a registered peer P sends audio_enabled / audio_disabled /
\* video_enabled / video_disabled, every open channel including P's receives
\* (once) the full state list of that kind, holding P's entry with the new
\* flag, and the entries of all other ids are exactly as before; the table of
\* the other kind and the Registry do not change.
C9_MediaStateFrame ==
  [][(/\ ev'.kind = "message"
      /\ ev'.data.type \in MediaTypes
      /\ ev'.ch \in DOMAIN clients)
     => LET p == clients[ev'.ch].userId
            audio == IsAudio(ev'.data.type)
            before == IF audio THEN userAudioStates ELSE userVideoStates
            after == IF audio THEN userAudioStates' ELSE userVideoStates'
        IN /\ {out'[i].to : i \in 1..Len(out')} = {c \in Chan : chanState'[c] = "open"}
           /\ Len(out') = Cardinality({c \in Chan : chanState'[c] = "open"})
           /\ ev'.ch \in {out'[i].to : i \in 1..Len(out')}
           /\ \A i \in 1..Len(out') :
                /\ out'[i].msg.type = (IF audio THEN "audio_states" ELSE "video_states")
                /\ out'[i].msg.states = after
           /\ MapHas(after, p)
           /\ MapGet(after, p) = [userId |-> p, enabled |-> IsEnable(ev'.data.type)]
           /\ \A x \in UserIds \ {p} :
                /\ MapHas(after, x) <=> MapHas(before, x)
                /\ MapHas(before, x) => MapGet(after, x) = MapGet(before, x)
           /\ audio => userVideoStates' = userVideoStates
           /\ ~audio => userAudioStates' = userAudioStates
           /\ connectedUsers' = connectedUsers
           /\ clients' = clients]_vars

\* a registered peer changed its audio flag while another id had an entry,
\* with two channels open
C9_Witness ==
  /\ ev.kind = "message"
  /\ ev.data.type = "audio_disabled"
  /\ ev.ch \in DOMAIN clients
  /\ Len(userAudioStates) = 2
  /\ Len(out) = 2

\* C10: a media-state message that repeats the one handled just before it (same
\* channel, same type, nothing in between) leaves the flag as the message says
\* and the Registry and both state tables as they were after the first, and
\* its broadcast equals the first one's.
C10_MediaStateIdempotent ==
  [][(/\ ev'.kind = "message"
      /\ ev'.data.type \in MediaTypes
      /\ ev'.ch \in DOMAIN clients
      /\ prev.ev = ev')
     => LET p == clients[ev'.ch].userId
            after == IF IsAudio(ev'.data.type) THEN userAudioStates' ELSE userVideoStates'
        IN /\ MapGet(after, p).enabled = IsEnable(ev'.data.type)
           /\ userAudioStates' = userAudioStates
           /\ userVideoStates' = userVideoStates
           /\ connectedUsers' = connectedUsers
           /\ clients' = clients
           /\ out' = prev.out]_vars

\* audio_enabled was handled twice in a row for a registered peer, each time
\* broadcast to two channels
C10_Witness ==
  /\ ev.kind = "message"
  /\ ev.data.type = "audio_enabled"
  /\ ev.ch \in DOMAIN clients
  /\ prev.ev = ev
  /\ Len(out) = 2
  /\ Len(prev.out) = 2

\* C11: when the Registry already holds MAX_CLIENTS records, a channel that
\* connects is sent the 'Server full' error and nothing else, is then closed
\* by the relay without its handlers being registered, and the Registry and
\* every other table stay as they were.
C11_FullRegistryRefuses ==
  [][(ev'.kind = "connection" /\ Len(connectedUsers) >= MAX_CLIENTS)
     => /\ out' = <<Emit(ev'.ch, [type |-> "error", message |-> "Server full"])>>
        /\ chanState'[ev'.ch] = "closing"
        /\ ev'.ch \notin accepted'
        /\ connectedUsers' = connectedUsers
        /\ clients' = clients
        /\ userAudioStates' = userAudioStates
        /\ userVideoStates' = userVideoStates]_vars

\* C12: a channel is refused for capacity only when the number of registered
\* peers is at or above the ceiling; channels that are open but have not
\* joined never cause a refusal.
C12_AdmissionCountsRegistered ==
  (ev.kind = "connection" /\ chanState[ev.ch] = "closing")
    => Len(connectedUsers) >= MAX_CLIENTS

\* ids named by a membership or media-state list
IdsIn(msg) ==
  IF msg.type = "user_list" THEN ListedIds(msg)
  ELSE IF msg.type \in {"audio_states", "video_states"} THEN MapKeys(msg.states)
  ELSE {}
\* the i-th block of n messages of out
Block(o, i, n) == SubSeq(o, (i - 1) * n + 1, i * n)
BlockIs(o, i, n, type, open) ==
  LET b == Block(o, i, n)
  IN /\ Len(b) = n
     /\ \A k \in 1..n : b[k].msg.type = type
     /\ {b[k].to : k \in 1..n} = open

\* ids held by a channel that has not disconnected: its current id, or the id
\* of a Peer record made for it
HeldIds ==
  {clients[d].userId : d \in DOMAIN clients}
    \cup {connectedUsers[i].userId :
            i \in {j \in 1..Len(connectedUsers) :
                     chanState[connectedUsers[j].ws] # "closed"}}

\* C13: when a registered channel disconnects, its Peer record and media-state
\* entries are removed and every remaining open channel receives, in this
\* order, a system (left) notice, a user_list, audio_states and video_states,
\* none of them naming the departed id; and no broadcast names an id whose
\* holders have all disconnected.
C13_LeaveOrder ==
  [][/\ (ev'.kind = "close" /\ ev'.ch \in DOMAIN clients)
        => LET x == clients[ev'.ch].userId
               open == {c \in Chan : chanState'[c] = "open"}
               n == Cardinality(open)
           IN /\ ~MapHas(connectedUsers', x)
              /\ ~MapHas(userAudioStates', x)
              /\ ~MapHas(userVideoStates', x)
              /\ \A i \in 1..Len(connectedUsers') : connectedUsers'[i].ws # ev'.ch
              /\ Len(out') = 4 * n
              /\ BlockIs(out', 1, n, "system", open)
              /\ BlockIs(out', 2, n, "user_list", open)
              /\ BlockIs(out', 3, n, "audio_states", open)
              /\ BlockIs(out', 4, n, "video_states", open)
              /\ \A i \in 1..Len(out') :
                   /\ x \notin IdsIn(out'[i].msg)
                   /\ out'[i].msg.type = "system"
                        => out'[i].msg = SystemMsg(clients[ev'.ch].username, "left")
     /\ \A i \in 1..Len(out') : IdsIn(out'[i].msg) \subseteq HeldIds'
    ]_vars

\* C14: a join never assigns an id that is already present in the Registry and
\* never overwrites an existing Peer record: the step of a successful join
\* adds one record under an id the Registry did not hold and keeps every
\* record it held.
C14_JoinIdIsFresh ==
  [][JoinEvent' =>
       /\ ~MapHas(connectedUsers, clients'[ev'.ch].userId)
       /\ Len(connectedUsers') = Len(connectedUsers) + 1
       /\ SeqRange(connectedUsers) \subseteq SeqRange(connectedUsers')]_vars

\* an inbound message that is unparsable, or of a known type with a required
\* field missing or invalid
Malformed ==
  /\ ev.kind = "message"
  /\ \/ ev.data.type = "#unparsable"
     \/ ev.data.type = "set_username" /\ ~ValidUsername(ev.data.username)
     \/ ev.data.type \in SignalTypes /\ ev.data.targetUserId = NoId
     \/ ev.data.type = "chat" /\ ev.data.text = ""

\* C15: every malformed inbound message is answered with an error reply sent
\* to the sender, and the sender's channel stays open.
C15_MalformedAnsweredWithError ==
  Malformed =>
    /\ \E i \in 1..Len(out) : out[i].to = ev.ch /\ out[i].msg.type = "error"
    /\ chanState[ev.ch] = "open"

\* C16: a malformed inbound message causes no message to be sent to any
\* channel other than the sender's and leaves the Registry and all
\* media-state entries unchanged.
C16_MalformedAffectsNobodyElse ==
  [][Malformed' =>
       /\ \A i \in 1..Len(out') : out'[i].to = ev'.ch
       /\ connectedUsers' = connectedUsers
       /\ userAudioStates' = userAudioStates
       /\ userVideoStates' = userVideoStates]_vars

\* C17: every chat broadcast carries as username the display name registered
\* for the originating channel, and the chat broadcast caused by a channel
\* without a registered identity carries a username that no registered peer
\* has.
C17_ChatNameIsRegistered ==
  \A i \in 1..Len(out) :
    out[i].msg.type = "chat" =>
      /\ ev.kind = "message" /\ ev.data.type = "chat"
      /\ IF ev.ch \in DOMAIN clients
         THEN out[i].msg.username = clients[ev.ch].username
         ELSE \A d \in DOMAIN clients : clients[d].username # out[i].msg.username

\* o holds the message msg for exactly the channels open
SentToAll(o, msg, open) ==
  {o[i].to : i \in {j \in 1..Len(o) : o[j].msg = msg}} = open

\* C18: a Hub event applies its mutation and emits its broadcasts in one
\* step: every user_list, audio_states and video_states message a step sends
\* has the content of the table after the step (so all its recipients get the
\* same content), and a step that changes a table sends the table's
\* broadcast to every open channel.
C18_MutationAndBroadcastAtomic ==
  [][/\ \A i \in 1..Len(out') :
          /\ out'[i].msg.type = "user_list" => out'[i].msg = UserListOf(connectedUsers')
          /\ out'[i].msg.type = "audio_states" => out'[i].msg.states = userAudioStates'
          /\ out'[i].msg.type = "video_states" => out'[i].msg.states = userVideoStates'
     /\ connectedUsers' # connectedUsers => SentToAll(out', UserListOf(connectedUsers'), OpenChannels')
     /\ userAudioStates' # userAudioStates
          => SentToAll(out', [type |-> "audio_states", states |-> userAudioStates'],
                       OpenChannels')
     /\ userVideoStates' # userVideoStates
          => SentToAll(out', [type |-> "video_states", states |-> userVideoStates'],
                       OpenChannels')
    ]_vars

\* a registered peer with a media-state entry leaves while another peer is
\* registered and open
C18_Witness ==
  /\ ev.kind = "close"
  /\ Len(connectedUsers) >= 1
  /\ Len(userAudioStates) >= 1
  /\ \E i \in 1..Len(out) : out[i].msg.type = "user_list"

(***************************************************************************)
(* Properties of the participant.                                          *)
(***************************************************************************)
\* the id the relay registered for participant p
JoinedAs(p) == cl[p].userIdRef
\* the unclosed connections participant p created for the remote id k
LiveHandles(p, k) ==
  {h \in Handles : cl[p].conns[h].state # "free" /\ cl[p].conns[h].remote = k}

\* C6: for every pair of participants exactly one side acts as offerer for
\* the pair: two participants that joined under different ids never both
\* send an offer to each other.
C6_ExactlyOneOfferer ==
  \A p \in Part, q \in Part :
    (p # q /\ JoinedAs(p) # NoId /\ JoinedAs(q) # NoId /\ JoinedAs(p) # JoinedAs(q))
      => ~(JoinedAs(q) \in cl[p].offered /\ JoinedAs(p) \in cl[q].offered)

\* C7: on one participant there is at most one live (unclosed) connection
\* handle per remote id at any time, also while Links are created by
\* membership updates, by incoming offers and by reconnection retries.
C7_OneLiveHandlePerRemote ==
  \A p \in Part, k \in UserIds : Cardinality(LiveHandles(p, k)) <= 1

\* C8: reconnection is bounded: the number of times the Link to one remote
\* id is recreated by the retry path never exceeds the maximum retry count.
C8_ReconnectionBounded ==
  \A p \in Part, k \in UserIds : cl[p].recreated[k] <= MaxRetries

\* the state of a hook without the frames it has sent
Quiet(s) == [s EXCEPT !.outbox = <<>>]

\* the step of participant p is the callback of its i-th pending timer
Fired(p, i) ==
  /\ TimerDue(cl[p], i)
  /\ FireTimer(cl[p], i).ok
  /\ Quiet(cl'[p]) = Quiet(FireTimer(cl[p], i))

\* C19: when a participant has processed a membership update (the delayed
\* callback of the user_list ran), its Link table contains no remote id that
\* is absent from that membership: the Links of departed peers were closed
\* and removed.
C19_DepartedLinkRemoved ==
  [][\A p \in Part : \A i \in 1..Len(cl[p].timers) :
       (cl[p].timers[i].kind = "lists" /\ Fired(p, i))
         => MapKeys(cl'[p].peers) \cap UserIds \subseteq SeqRange(cl[p].timers[i].users)]_vars

\* C20: a retry that fires for a remote id absent from the latest membership
\* the participant was told of (a membership that lists the participant
\* itself) creates no Link for it and sends it no offer.
C20_RetryCancelledOnDeparture ==
  [][\A p \in Part : \A i \in 1..Len(cl[p].timers) :
       LET t == cl[p].timers[i] IN
       (t.kind = "retry" /\ t.key \in UserIds /\ Fired(p, i)
          /\ cl[p].userIdRef \in cl[p].connectedUsers
          /\ t.key \notin cl[p].connectedUsers)
         => /\ ~MapHas(cl'[p].peers, t.key)
            /\ \A j \in 1..Len(FireTimer(cl[p], i).outbox) :
                 LET m == FireTimer(cl[p], i).outbox[j] IN
                 ~(m.type = "webrtc_offer" /\ m.targetUserId = t.key)]_vars

\* C21: once a participant's channel has closed, no retry or link-creation
\* timer of it is pending and its Link table is empty and stays empty,
\* whatever timers scheduled earlier do when they fire.
C21_LeaveCancelsEverything ==
  \A p \in Part :
    cl[p].ws = "closed" =>
      /\ cl[p].peers = <<>>
      /\ \A i \in 1..Len(cl[p].timers) :
           cl[p].timers[i].kind \notin {"retry", "lists", "call"}

\* the Links of participant p: the entries of its Link table under a peer id
Links(p) == {i \in 1..Len(cl[p].peers) : cl[p].peers[i].userId \in UserIds}

\* the establishment timeout of the connection h of participant p is running
TimeoutRunning(p, h) ==
  \E i \in 1..Len(cl[p].timers) :
    cl[p].timers[i].kind = "timeout" /\ cl[p].timers[i].conn = h

\* C22: a Link that has not reached CONNECTED fails 10 s after its creation:
\* as long as a Link is not connected its establishment timeout is running,
\* on the offering and on the waiting side and after the offer was sent.
C22_EstablishmentTimeout ==
  \A p \in Part : \A i \in Links(p) :
    LET h == cl[p].peers[i].conn IN
    cl[p].conns[h].state # "connected" => TimeoutRunning(p, h)

\* C23: after a participant has processed a membership update M (the delayed
\* callback of the user_list ran), its Link table has a Link for every id of
\* M other than its own, none for its own id, and the Links it already had
\* for ids of M are the same objects as before.
C23_LinksFollowMembership ==
  [][\A p \in Part : \A i \in 1..Len(cl[p].timers) :
       (cl[p].timers[i].kind = "lists" /\ Fired(p, i))
         => LET M == SeqRange(cl[p].timers[i].users)
                own == cl[p].userIdRef
            IN /\ \A k \in M \ {own} : MapHas(cl'[p].peers, k)
               /\ ~MapHas(cl'[p].peers, own)
               /\ \A k \in M \ {own} :
                    MapHas(cl[p].peers, k)
                      => MapGet(cl'[p].peers, k).conn = MapGet(cl[p].peers, k).conn]_vars

\* C24: when the retry scheduled by a Link failure fires for a remote id R
\* of the latest membership, a replacement Link for R is in the Link table and negotiation is restarted
\* on it: an initiateCall for the new connection is under way, which sends the
\* new offer targeting R.
C24_RetryRestartsNegotiation ==
  [][\A p \in Part : \A i \in 1..Len(cl[p].timers) :
       LET t == cl[p].timers[i] IN
       (t.kind = "retry" /\ t.key \in cl[p].connectedUsers /\ Fired(p, i))
         => /\ MapHas(cl'[p].peers, t.key)
            /\ \E j \in 1..Len(cl'[p].calls) :
                 /\ cl'[p].calls[j].key = t.key
                 /\ cl'[p].calls[j].conn = MapGet(cl'[p].peers, t.key).conn]_vars

\* C27: when a participant with an open channel handles an offer from the
\* remote id R, the offer is applied to its Link for R and exactly one answer
\* targeting R is sent, whether or not it had a Link for R before.
C27_OfferIsAnswered ==
  [][\A p \in Part : \A msg \in LinkMessages(cl[p]), rollback \in BOOLEAN :
       LET s == HandleMessage(cl[p], msg, rollback)
           R == msg.senderUserId
       IN (/\ cl[p].ws = "open"
           /\ msg.type = "webrtc_offer"
           /\ s.ok
           /\ Quiet(cl'[p]) = Quiet(s)
           /\ cl'[p] # cl[p])
            => /\ MapHas(s.peers, R)
               /\ s.conns[MapGet(s.peers, R).conn].remoteSet
               /\ s.outbox = <<Data("webrtc_answer", NoName, R, NoId, NoName, "")>>]_vars

\* the ids of a table, in its order
IdsOf(users) == [i \in 1..Len(users) |-> users[i].userId]

\* C28: every user_list lists the registered peers in the order in which
\* their joins were accepted: an accepted join puts the joiner's id last and
\* keeps the order of the others, a leave takes the leaver's id out and keeps
\* the order of the others, nothing else changes the order, and every
\* user_list sent has the order of the Registry.
C28_UserListInJoinOrder ==
  [][/\ JoinEvent'
          => LET x == clients'[ev'.ch].userId
             IN IdsOf(connectedUsers')
                  = SelectSeq(IdsOf(connectedUsers), LAMBDA i : i # x) \o <<x>>
     /\ (ev'.kind = "close" /\ ev'.ch \in DOMAIN clients)
          => LET x == clients[ev'.ch].userId
             IN IdsOf(connectedUsers')
                  = SelectSeq(IdsOf(connectedUsers), LAMBDA i : i # x)
     /\ ~(JoinEvent' \/ ev'.kind = "close") => connectedUsers' = connectedUsers
     /\ \A i \in 1..Len(out') :
          out'[i].msg.type = "user_list"
            => IdsOf(out'[i].msg.users) = IdsOf(connectedUsers')]_vars

\* the pending retry timers of participant p for the remote id k
Retries(p, k) ==
  {i \in 1..Len(cl[p].timers) :
     cl[p].timers[i].kind = "retry" /\ cl[p].timers[i].key = k}

\* C30: at most one reconnection is pending per remote id: however many
\* failure signals a Link gets, at most one retry timer is outstanding for
\* its remote id.
C30_OneRetryPerRemote ==
  \A p \in Part : \A k \in UserIds : Cardinality(Retries(p, k)) <= 1

\* the connected Links of the hook state s
ConnectedLinks(s) ==
  {i \in 1..Len(s.peers) :
     s.peers[i].userId \in UserIds /\ s.conns[s.peers[i].conn].state = "connected"}

\* s is the state after a synchronizer operation on kind that sent the state
\* message type: every connected Link carries exactly the tracks of the
\* enabled kinds, a renegotiation (an initiateCall, which sends the fresh
\* offer) is under way on it, and the state message is the last frame sent
Synchronized(s, type) ==
  /\ \A i \in ConnectedLinks(s) :
       /\ s.conns[s.peers[i].conn].senders = s.enabled
       /\ \E j \in 1..Len(s.calls) :
            s.calls[j].key = s.peers[i].userId /\ s.calls[j].conn = s.peers[i].conn
  /\ s.outbox # <<>>
  /\ s.outbox[Len(s.outbox)].type = type

\* C25: whenever enable(kind) or disable(kind) changes the local track set,
\* every connected Link gets its outgoing track set updated and a
\* renegotiation is started on it, and the media-state message is sent to the
\* Hub after that.
C25_TrackChangeRenegotiates ==
  [][\A p \in Part : \A kind \in Kinds :
       /\ LET s == CaptureSettled(cl[p], kind, FALSE)
          IN (kind \in cl[p].capturing /\ cl[p].ws = "open" /\ s.ok
                /\ Quiet(cl'[p]) = Quiet(s))
               => Synchronized(s, kind \o "_enabled")
       /\ LET s == StopStreaming(cl[p], kind)
          IN (kind \in cl[p].enabled /\ cl[p].ws = "open" /\ s.ok
                /\ Quiet(cl'[p]) = Quiet(s))
               => Synchronized(s, kind \o "_disabled")]_vars

\* C26: between synchronizer operations (no getUserMedia pending) every Link
\* of a participant carries the same outgoing track set, the tracks of the
\* kinds that are enabled: none of a disabled kind, one of every enabled kind.
C26_LinksCarryEnabledKinds ==
  \A p \in Part :
    cl[p].capturing = {} =>
      \A i \in Links(p) : cl[p].conns[cl[p].peers[i].conn].senders = cl[p].enabled

\* C29: a participant sends at most one offer for a Link until the offer is
\* answered or the Link fails: no initiateCall sends an offer on a connection
\* whose own offer is outstanding.
C29_OneOfferPerLink ==
  [][\A p \in Part : \A j \in 1..Len(cl[p].calls) :
       LET a == cl[p].calls[j]
           s == OfferCreated(cl[p], j, FALSE)
       IN (/\ a.conn # Dead
           /\ s.ok
           /\ Quiet(cl'[p]) = Quiet(s)
           /\ \E m \in 1..Len(s.outbox) : s.outbox[m].type = "webrtc_offer")
            => cl[p].conns[a.conn].sig # "have-local-offer"]_vars

\* C34: a channel that has not completed the join handshake cannot act as a
\* peer: its offer, answer and candidate messages are forwarded to nobody,
\* its audio and video state messages change no media-state entry and cause
\* no broadcast, and its disconnect causes no broadcast and no change of the
\* Registry.
C34_UnjoinedChannelIsInert ==
  [][(/\ ev'.ch \in Chan
      /\ ev'.ch \notin DOMAIN clients
      /\ \/ ev'.kind = "message" /\ ev'.data.type \in SignalTypes \cup MediaTypes
         \/ ev'.kind = "close")
       => /\ out' = <<>>
          /\ connectedUsers' = connectedUsers
          /\ userAudioStates' = userAudioStates
          /\ userVideoStates' = userVideoStates
          /\ clients' = clients]_vars

\* a channel without an identity sends a signaling message to a registered
\* peer whose channel is open
C34_Witness ==
  /\ ev.kind = "message"
  /\ ev.data.type \in SignalTypes
  /\ ev.ch \notin DOMAIN clients
  /\ MapHas(connectedUsers, ev.data.targetUserId)
  /\ chanState[MapGet(connectedUsers, ev.data.targetUserId).ws] = "open"
  /\ out = <<>>

\* C32: every id that has an entry in the audio-state or the video-state
\* table is a key of the Registry.
C32_MediaEntriesAreRegistered ==
  MapKeys(userAudioStates) \cup MapKeys(userVideoStates) \subseteq MapKeys(connectedUsers)


(***************************************************************************)
(* Properties of the Link generations.                                     *)
(***************************************************************************)
\* C31: an answer is applied only to the Link it was produced for: when the
\* oldest unanswered offer to R went out on a Link that has been closed and
\* replaced since, handling the answer from R that arrives next changes no
\* RTCPeerConnection of the participant, the replacement Link's included.
C31_LateAnswerNotApplied ==
  [][\A p \in Part, r \in UserIds :
       (/\ r \in cl[p].late
        /\ MapHas(cl[p].peers, r)
        /\ Quiet(cl'[p]) = Quiet(HandleWebRTCAnswer(cl[p], r)))
       => cl'[p].conns = cl[p].conns]_vars


(***************************************************************************)
(* Properties of the media states.                                         *)
(***************************************************************************)
\* the relay's flag of a table for an id, a missing entry counting as false
HubFlag(states, userId) == MapHas(states, userId) /\ MapGet(states, userId).enabled

\* the participant's channel is open, its join was accepted, and no frame of
\* it or for it is in flight
Settled(p) ==
  /\ cl[p].ws = "open" /\ chanState[p] = "open"
  /\ cl[p].userIdRef # NoId /\ p \in DOMAIN clients
  /\ Idle /\ out = <<>>
  /\ cl[p].outbox = <<>> /\ cl[p].inbox = <<>>

\* C33: whenever a joined participant's channel is open and no message is in
\* flight, the relay's audio (video) flag for the participant is true exactly
\* when the participant's isAudioEnabled (isVideoEnabled) is true.
C33_FlagsAgree ==
  \A p \in Part :
    Settled(p) =>
      /\ HubFlag(userAudioStates, clients[p].userId) <=> "audio" \in cl[p].enabled
      /\ HubFlag(userVideoStates, clients[p].userId) <=> "video" \in cl[p].enabled

====
